---- MODULE Spec2Model ----
(***************************************************************************)
(* Model of src/j2d_regex_conversions.py: the Journey-HTML to DayOne       *)
(* Markdown conversion (Importer.convert_journey_html_to_dayone_markdown    *)
(* and its stages) and the import accounting of Importer.run.              *)
(*                                                                         *)
(* A text is a sequence of tokens.  A token is a string that the regular   *)
(* expressions of the source treat as a unit: a whole tag, an entity, a    *)
(* whitespace character, a word, or a backslash sequence.  Every regular   *)
(* expression of the source is modelled by the scan it performs over the   *)
(* token sequence (leftmost match, lazy or greedy quantifiers, DOTALL or   *)
(* not), and re.sub's replacement template by its expansion.               *)
(***************************************************************************)
EXTENDS Integers, Sequences, FiniteSets, TLC

VARIABLES
    input,      \* the string handed to convert_journey_html_to_dayone_markdown
    text,       \* the local variable `text` of the conversion
    pc,         \* position in the conversion pipeline
    block,      \* the block located and replaced by the last loop iteration
    entries,    \* Importer.run: the raw entries found under src_directory
    rpc,        \* Importer.run: position of the run
    loaded,     \* Importer.run: number of raw entries pulled from load_journey_entries
    flat,       \* import_entries: flat_entries, the validated entries still to import
    data,       \* Importer.data (ImportManyResult)
    yielded,    \* the entries yielded by import_entries (their paths)
    printed     \* the counts print_result printed

vars == <<input, text, pc, block, entries, rpc, loaded, flat, data, yielded, printed>>

convVars == <<input, text, pc, block>>
runVars == <<entries, rpc, loaded, flat, data, yielded, printed>>

(***************************************************************************)
(* Sequence helpers.                                                       *)
(***************************************************************************)
RECURSIVE Flatten(_)
Flatten(ss) == IF ss = <<>> THEN <<>> ELSE Head(ss) \o Flatten(Tail(ss))

SeqsUpTo(S, n) == UNION {[1..k -> S] : k \in 0..n}

Slice(t, a, b) == IF a > b THEN <<>> ELSE SubSeq(t, a, b)

\* smallest index >= from whose token is in S, 0 when there is none
FirstIdx(t, from, S) ==
    LET c == {i \in from..Len(t) : t[i] \in S}
    IN  IF c = {} THEN 0 ELSE CHOOSE i \in c : \A j \in c : i <= j

\* smallest index >= from whose token is not in S, Len(t)+1 when there is none
FirstNotIn(t, from, S) ==
    LET c == {i \in from..Len(t) : t[i] \notin S}
    IN  IF c = {} THEN Len(t) + 1 ELSE CHOOSE i \in c : \A j \in c : i <= j

\* F applied to the value of v (v is computed once, before F is applied)
Then(v, F(_)) == CHOOSE r \in {F(x) : x \in {v}} : TRUE

Count(t, S) == Cardinality({i \in 1..Len(t) : t[i] \in S})

(***************************************************************************)
(* Tokens.                                                                 *)
(***************************************************************************)
NL == "\n"
Whitespace == {" ", NL}                       \* \s
NotDot == {NL}                                \* what . refuses without DOTALL

OlOpen == {"<ol>"}
OlClose == {"</ol>", "<\\/ol>"}               \* <\\*/+ol>
UlTask == "<ul class=\"task\">"
UlOpen == {"<ul>", UlTask}                    \* <ul.*?>
UlClose == {"</ul>", "<\\/ul>"}               \* <\\*/+ul>
LiOpen == {"<li>"}
LiChecked == "<li data-checked=\"true\">"
LiClose == {"</li>", "<\\/li>"}               \* <\\*/+li>
QuoteOpen == {"<blockquote>"}
QuoteClose == {"</blockquote>", "<\\/blockquote>"}

\* backslash sequences, as re.sub's replacement template reads them
EscNewline == "\\n"                           \* backslash, n: a newline
BadEscape == "\\q"                            \* backslash, ASCII letter: re.error
GroupZero == "\\g<0>"                         \* the whole match
GroupRefs == {"\\1", "\\2", "\\3", "\\4"}
GroupNo(tok) == CASE tok = "\\1" -> 1 [] tok = "\\2" -> 2
                  [] tok = "\\3" -> 3 [] tok = "\\4" -> 4

(***************************************************************************)
(* re.sub(pattern, template, text, count=1): the template is parsed, its   *)
(* escapes and group references are expanded against the match m, and the  *)
(* result replaces text[m.start..m.end].  A bad escape raises re.error.    *)
(***************************************************************************)
RECURSIVE expand_template(_, _)
expand_template(template, m) ==
    IF template = <<>> THEN <<>>
    ELSE LET tok == Head(template)
             out == IF tok = EscNewline THEN <<NL>>
                    ELSE IF tok = GroupZero THEN Slice(m.text, m.start, m.end)
                    ELSE IF tok \in GroupRefs THEN
                         (IF GroupNo(tok) <= Len(m.groups)
                          THEN m.groups[GroupNo(tok)] ELSE <<>>)
                    ELSE <<tok>>
         IN  out \o expand_template(Tail(template), m)

template_raises(template, m) ==
    \E i \in 1..Len(template) :
        \/ template[i] = BadEscape
        \/ template[i] \in GroupRefs /\ GroupNo(template[i]) > Len(m.groups)

\* the result of one re.sub(..., count=1) on the match m
sub_once(template, m) ==
    IF template_raises(template, m)
    THEN [raised |-> TRUE, text |-> m.text]
    ELSE [raised |-> FALSE,
          text |-> Slice(m.text, 1, m.start - 1)
                   \o expand_template(template, m)
                   \o Slice(m.text, m.end + 1, Len(m.text))]

NoMatch == [found |-> FALSE]

(***************************************************************************)
(* convert_lists: the ordered-list loop.                                   *)
(***************************************************************************)
\* re.search(r'(<ol>)(\s*)(.*?)(<\\*/+ol>)', text, flags=re.DOTALL)
ol_parent_search(t) ==
    LET i == FirstIdx(t, 1, OlOpen)
        j == IF i = 0 THEN 0 ELSE FirstIdx(t, i + 1, OlClose)
        w == FirstNotIn(t, i + 1, Whitespace)
    IN  IF i = 0 \/ j = 0 THEN NoMatch
        ELSE [found |-> TRUE, text |-> t, start |-> i, end |-> j,
              groups |-> << <<t[i]>>, Slice(t, i + 1, w - 1),
                            Slice(t, w, j - 1), <<t[j]>> >>]

\* re.finditer(r'(<li>)(?P<contents>.*?)(<\\*/+li>)(?P<newline>\s*)', s)
\* from position p on: the sequence of matches, each [contents, newline]
RECURSIVE li_finditer(_, _)
li_finditer(s, p) ==
    IF p > Len(s) THEN <<>>
    ELSE IF s[p] \notin LiOpen THEN li_finditer(s, p + 1)
    ELSE LET q == FirstIdx(s, p + 1, LiClose \cup NotDot)
         IN  IF q = 0 \/ s[q] \in NotDot THEN li_finditer(s, p + 1)
             ELSE LET w == FirstNotIn(s, q + 1, Whitespace)
                  IN  << [contents |-> Slice(s, p + 1, q - 1),
                          newline |-> Slice(s, q + 1, w - 1)] >>
                      \o li_finditer(s, w)

Ordinal(k) == ToString(k) \o ". "

\* li_str: line_num + contents + newline for each item, numbered from 1
RECURSIVE li_str(_, _)
li_str(items, k) ==
    IF k > Len(items) THEN <<>>
    ELSE <<EscNewline, Ordinal(k)>> \o items[k].contents \o items[k].newline
         \o li_str(items, k + 1)

\* the template of line 263: r'\2' + li_str
ol_template(m) ==
    <<"\\2">> \o Then(li_finditer(Slice(m.text, m.start, m.end), 1),
                      LAMBDA items : li_str(items, 1))

\* one iteration of the while loop of lines 252-264
ol_iteration(t) ==
    Then(ol_parent_search(t), LAMBDA m : Then(ol_template(m), LAMBDA tpl : sub_once(tpl, m)))

(***************************************************************************)
(* convert_lists: the unordered and task list loop.                        *)
(***************************************************************************)
\* re.search(r'(?P<opening_tag><ul.*?>)(?P<newline>\s*)(?P<contents>.*?)(<\\*/+ul>)',
\*           text, flags=re.DOTALL)
ul_parent_search(t) ==
    LET i == FirstIdx(t, 1, UlOpen)
        j == IF i = 0 THEN 0 ELSE FirstIdx(t, i + 1, UlClose)
        w == FirstNotIn(t, i + 1, Whitespace)
    IN  IF i = 0 \/ j = 0 THEN NoMatch
        ELSE [found |-> TRUE, text |-> t, start |-> i, end |-> j,
              groups |-> << <<t[i]>>, Slice(t, i + 1, w - 1),
                            Slice(t, w, j - 1), <<t[j]>> >>]

\* re.sub(pattern, repl, s) for a pattern that matches exactly the tokens of S
RECURSIVE sub_tokens(_, _, _)
sub_tokens(s, S, repl) ==
    IF s = <<>> THEN <<>>
    ELSE (IF Head(s) \in S THEN repl ELSE <<Head(s)>>) \o sub_tokens(Tail(s), S, repl)

\* the pattern with the class attribute made optional: every list is a task list
tl_start_search_any_class(opening_tag) == opening_tag[1] \in UlOpen

\* re.search(r'(<ul\s*class=\"task\">)', ul_match.group('opening_tag'))
tl_start_search(opening_tag) == opening_tag = <<UlTask>>

\* lines 270-279: the text between the markers, its item markers rewritten
ul_substring(m) ==
    Then(Then(m.groups[2] \o m.groups[3],
              LAMBDA s : IF tl_start_search(m.groups[1])
                         THEN Then(sub_tokens(s, {LiChecked}, <<NL, "- [X] ">>),
                                   LAMBDA x : sub_tokens(x, LiOpen, <<NL, "- [ ] ">>))
                         ELSE sub_tokens(s, LiOpen, <<NL, "- ">>)),
         LAMBDA x : sub_tokens(x, LiClose, <<>>))

\* the template of line 281: r'\2' + ul_substring
ul_template(m) == <<"\\2">> \o ul_substring(m)

\* one iteration of the while loop of lines 268-282
ul_iteration(t) ==
    Then(ul_parent_search(t), LAMBDA m : Then(ul_template(m), LAMBDA tpl : sub_once(tpl, m)))

(***************************************************************************)
(* convert_quote_blocks.                                                   *)
(***************************************************************************)
\* re.search(r'(<blockquote>)(?P<contents>.*?)(<\\*/+blockquote>)', text, flags=re.DOTALL)
quote_parent_search(t) ==
    LET i == FirstIdx(t, 1, QuoteOpen)
        j == IF i = 0 THEN 0 ELSE FirstIdx(t, i + 1, QuoteClose)
    IN  IF i = 0 \/ j = 0 THEN NoMatch
        ELSE [found |-> TRUE, text |-> t, start |-> i, end |-> j,
              groups |-> << <<t[i]>>, Slice(t, i + 1, j - 1), <<t[j]>> >>]

\* re.sub(r'(\n)(?P<contents>.*?(?=\n))', r'\n' + '> ' + r'\g<contents>', s,
\*        flags=re.DOTALL), scanning from position p
RECURSIVE quote_contents_sub(_, _)
quote_contents_sub(s, p) ==
    IF p > Len(s) THEN <<>>
    ELSE IF s[p] # NL THEN <<s[p]>> \o quote_contents_sub(s, p + 1)
    ELSE LET q == FirstIdx(s, p + 1, {NL})
         IN  IF q = 0 THEN <<s[p]>> \o quote_contents_sub(s, p + 1)
             ELSE <<NL, "> ">> \o Slice(s, p + 1, q - 1) \o quote_contents_sub(s, q)

\* the template of line 312: quote_substring
quote_template(m) == quote_contents_sub(m.groups[2], 1)

\* one iteration of the while loop of lines 308-313
quote_iteration(t) ==
    Then(quote_parent_search(t),
         LAMBDA m : Then(quote_template(m), LAMBDA tpl : sub_once(tpl, m)))

(***************************************************************************)
(* convert_simple.                                                         *)
(***************************************************************************)
Nbsp == "&nbsp;"
EmOpen == {"<em>", "<i>"}                                  \* <(em|i)>
EmClose == {"</em>", "<\\/em>", "</i>", "<\\/i>"}          \* <\\*/+(em|i)>
StrongOpen == {"<strong>", "<b>"}
StrongClose == {"</strong>", "<\\/strong>", "</b>", "<\\/b>"}
DelOpen == {"<del>"}
DelClose == {"</del>", "<\\/del>"}
SpanUnderline == "<span style=\"text-decoration: underline;\">"
SpanPlain == "<span style=\"color: red;\">"
SpanOpen == {SpanUnderline, SpanPlain}                     \* <span.*?>
SpanClose == {"</span>", "<\\/span>"}                      \* <\\{0,1}/{1}span>
WordFree == {" ", NL, "*", "**", "~~"}                     \* tokens without a \w character
PAttr == {"<p dir=\"auto\">"}                              \* <p\s.*?>
PTags == {"<p>", "</p>", "<\\/p>"}
HTags == {"<h1>", "<h2>", "<h3>", "</h1>", "</h2>", "</h3>",
          "<\\/h1>", "<\\/h2>", "<\\/h3>"}
DelTags == DelOpen \cup DelClose
SpanTags == SpanOpen \cup SpanClose

\* largest index in a..b whose token is not in S, a - 1 when there is none
LastNotIn(t, a, b, S) ==
    LET c == {i \in a..b : t[i] \notin S}
    IN  IF c = {} THEN a - 1 ELSE CHOOSE i \in c : \A j \in c : i >= j

\* re.sub(r'<open>(?P<content>.*?)(?P<nbsp>&nbsp;)*<close>', mark content mark nbsp, t)
\* scanning from position p: the three wrapping rules of to_replace_simple
RECURSIVE wrap_sub(_, _, _, _, _)
wrap_sub(t, p, Open, Close, mark) ==
    IF p > Len(t) THEN <<>>
    ELSE IF t[p] \notin Open THEN <<t[p]>> \o wrap_sub(t, p + 1, Open, Close, mark)
    ELSE LET q == FirstIdx(t, p + 1, Close \cup NotDot)
         IN  IF q = 0 \/ t[q] \in NotDot
             THEN <<t[p]>> \o wrap_sub(t, p + 1, Open, Close, mark)
             ELSE LET r == LastNotIn(t, p + 1, q - 1, {Nbsp})
                      nbsp == IF r < q - 1 THEN <<Nbsp>> ELSE <<>>
                  IN  <<mark>> \o Slice(t, p + 1, r) \o <<mark>> \o nbsp
                      \o wrap_sub(t, q + 1, Open, Close, mark)

\* re.sub(r'(<span.*?style.*?underline.*?>)(?P<text>.*?\w.*?)(<\\{0,1}/{1}span>)',
\*        r'*\g<text>*', t) scanning from position p
RECURSIVE underline_sub(_, _)
underline_sub(t, p) ==
    IF p > Len(t) THEN <<>>
    ELSE IF t[p] \notin SpanOpen THEN <<t[p]>> \o underline_sub(t, p + 1)
    ELSE LET k == FirstIdx(t, p, {SpanUnderline} \cup NotDot)
             c == IF k = 0 \/ t[k] \in NotDot THEN {}
                  ELSE {q \in (k + 1)..Len(t) :
                           /\ t[q] \in SpanClose
                           /\ \A i \in (k + 1)..(q - 1) : t[i] \notin NotDot
                           /\ \E i \in (k + 1)..(q - 1) : t[i] \notin WordFree}
         IN  IF c = {} THEN <<t[p]>> \o underline_sub(t, p + 1)
             ELSE LET q == CHOOSE x \in c : \A y \in c : x <= y
                  IN  <<"*">> \o Slice(t, k + 1, q - 1) \o <<"*">>
                      \o underline_sub(t, q + 1)

\* the loop of lines 214-215 over zip(to_replace_simple, replace_with_simple)
replace_simple(t) ==
    Then(Then(Then(Then(Then(Then(Then(Then(t,
        LAMBDA x : wrap_sub(x, 1, EmOpen, EmClose, "*")),
        LAMBDA x : wrap_sub(x, 1, StrongOpen, StrongClose, "**")),
        LAMBDA x : wrap_sub(x, 1, DelOpen, DelClose, "~~")),
        LAMBDA x : underline_sub(x, 1)),
        LAMBDA x : sub_tokens(x, {"<h1>"}, <<NL, "# ">>)),
        LAMBDA x : sub_tokens(x, {"<h2>"}, <<NL, "## ">>)),
        LAMBDA x : sub_tokens(x, {"<h3>"}, <<NL, "##### ">>)),
        LAMBDA x : sub_tokens(x, {Nbsp}, <<" ">>))

\* the loop of lines 217-218 over to_remove_simple
remove_simple(t) ==
    Then(Then(Then(Then(Then(t,
        LAMBDA x : sub_tokens(x, PAttr, <<>>)),
        LAMBDA x : sub_tokens(x, PTags, <<>>)),
        LAMBDA x : sub_tokens(x, HTags, <<>>)),
        LAMBDA x : sub_tokens(x, DelTags, <<>>)),
        LAMBDA x : sub_tokens(x, SpanTags, <<>>))

convert_simple(t) == Then(replace_simple(t), remove_simple)

(***************************************************************************)
(* perform_phrase_replacements and fix_name_spellings.                     *)
(***************************************************************************)
\* re.sub(r'(C|c)(offee)(S|s)(hop)', r'\1\2 \3\4', t)
RECURSIVE perform_phrase_replacements(_)
perform_phrase_replacements(t) ==
    IF t = <<>> THEN <<>>
    ELSE LET m == {g \in {"C", "c"} \X {"S", "s"} :
                       Head(t) = g[1] \o "offee" \o g[2] \o "hop"}
         IN  (IF m = {} THEN <<Head(t)>>
              ELSE LET g == CHOOSE x \in m : TRUE
                   IN  <<g[1] \o "offee", " ", g[2] \o "hop">>)
             \o perform_phrase_replacements(Tail(t))

\* the lowercase, capitalised and uppercase form of the words of the names
CaseForms == {<<"name", "Name", "NAME">>, <<"nome", "Nome", "NOME">>,
              <<"neme", "Neme", "NEME">>, <<"one", "One", "ONE">>,
              <<"two", "Two", "TWO">>, <<"three", "Three", "THREE">>}

CaseOf(tok, n) ==
    IF \E f \in CaseForms : tok \in {f[1], f[2], f[3]}
    THEN (CHOOSE f \in CaseForms : tok \in {f[1], f[2], f[3]})[n]
    ELSE tok

lower(name) == [i \in 1..Len(name) |-> CaseOf(name[i], 1)]      \* str.lower
upper(name) == [i \in 1..Len(name) |-> CaseOf(name[i], 3)]      \* str.upper

None == <<"None">>

names_to_fix ==
    << [correct_name |-> <<"Name", " ", "One">>,
        mispellings |-> << <<"Nome", " ", "One">> >>],
       [correct_name |-> <<"Name", " ", "Two">>,
        mispellings |-> << <<"Nome", " ", "Two">>, <<"Neme", " ", "Two">> >>],
       [correct_name |-> <<"Name", " ", "Three">>,
        mispellings |-> << None >>] >>

MatchesAt(t, p, pat) ==
    /\ p + Len(pat) - 1 <= Len(t)
    /\ SubSeq(t, p, p + Len(pat) - 1) = pat

\* re.sub('alt1|alt2|...', repl, t) for literal alternatives, scanning from p
RECURSIVE re_sub(_, _, _, _)
re_sub(alts, repl, t, p) ==
    IF p > Len(t) THEN <<>>
    ELSE LET c == {a \in 1..Len(alts) : MatchesAt(t, p, alts[a])}
         IN  IF c = {} THEN <<t[p]>> \o re_sub(alts, repl, t, p + 1)
             ELSE LET a == CHOOSE x \in c : \A y \in c : x <= y
                  IN  repl \o re_sub(alts, repl, t, p + Len(alts[a]))

\* lines 345-349: the two substitutions for one mispelling
fix_mispelling(correct_name, mis, t) ==
    IF mis = None THEN t
    ELSE Then(re_sub(<<upper(mis)>>, upper(correct_name), t, 1),
              LAMBDA x : re_sub(<<mis, lower(mis)>>, correct_name, x, 1))

\* line 344: the loop over the mispellings of one name, from the k-th on
RECURSIVE fix_mispellings(_, _, _, _)
fix_mispellings(correct_name, mispellings, k, t) ==
    IF k > Len(mispellings) THEN t
    ELSE Then(fix_mispelling(correct_name, mispellings[k], t),
              LAMBDA x : fix_mispellings(correct_name, mispellings, k + 1, x))

\* the same substitution made with re.IGNORECASE: an uppercase name matches too
fix_capitalization_ignorecase(correct_name, t) ==
    re_sub(<<lower(correct_name), upper(correct_name)>>, correct_name, t, 1)

\* line 341: re.sub(correct_name.lower(), correct_name, text)
fix_capitalization(correct_name, t) ==
    re_sub(<<lower(correct_name)>>, correct_name, t, 1)

\* lines 338-349: the loop over names_to_fix.items(), from the n-th entry on
RECURSIVE fix_names_from(_, _)
fix_names_from(n, t) ==
    IF n > Len(names_to_fix) THEN t
    ELSE Then(Then(fix_capitalization(names_to_fix[n].correct_name, t),
                   LAMBDA x : fix_mispellings(names_to_fix[n].correct_name,
                                              names_to_fix[n].mispellings, 1, x)),
              LAMBDA x : fix_names_from(n + 1, x))

fix_name_spellings(t) == fix_names_from(1, t)

\* re.sub(r'<hr( dir.*?){0,1}>', r'\n---', text)
HrTags == {"<hr>", "<hr dir=\"ltr\">"}
replace_hr(t) == sub_tokens(t, HrTags, <<NL, "---">>)

(***************************************************************************)
(* Bounds and the input texts.                                             *)
(***************************************************************************)
MaxChunks == 3      \* an input text is made of at most this many chunks
MaxItems == 2       \* items of a list block of the two-block inputs
MaxText == 12       \* a loop iteration that makes the text longer is cut off

Item(open, content) == <<open>> \o content \o <<"</li>">>

ListChunks ==
    { <<"<ol>">>, <<"</ol>">>, <<"<ul>">>, <<UlTask>>, <<"</ul>">>, <<NL>>,
      Item("<li>", <<"a">>), Item(LiChecked, <<"a">>),
      Item("<li>", <<BadEscape>>), Item("<li>", <<GroupZero>>),
      Item("<li>", <<EscNewline>>) }

\* two blocks in a row, each a list of up to MaxItems items
ListBlocks ==
    { <<o[1]>> \o ws \o Flatten(items) \o <<o[2]>> :
        o \in {<<"<ol>", "</ol>">>, <<"<ul>", "</ul>">>, <<UlTask, "<\\/ul>">>},
        ws \in {<<>>, <<NL>>},
        items \in SeqsUpTo({Item("<li>", <<"a">>), Item(LiChecked, <<"a">>)}, MaxItems) }

QuoteChunks ==
    { <<"<blockquote>">>, <<"</blockquote>">>, <<NL>>, <<"a">>,
      <<BadEscape>>, <<GroupZero>> }

InlineChunks ==
    { <<"<em>">>, <<"</em>">>, <<"<strong>">>, <<"</strong>">>,
      <<"<del>">>, <<"</del>">>, <<SpanUnderline>>, <<"</span>">>,
      <<"a">>, <<Nbsp>> }

\* styled spans, one of them underlined, on one line or on several
SpanChunks ==
    { <<SpanPlain, "foo", "</span>">>, <<SpanUnderline, "baz", "</span>">>,
      <<"<em>", "bar", "</em>">>, <<" ">>, <<NL>> }

WordChunks ==
    { <<"coffeeshop">>, <<"CoffeeShop">>, <<"coffee", " ", "shop">>,
      <<"name", " ", "one">>, <<"Name", " ", "One">>, <<"NAME", " ", "ONE">>,
      <<"Nome", " ", "One">>, <<"NOME", " ", "ONE">>, <<"Neme", " ", "Two">>,
      <<"name", " ", "three">>, <<"x">>, <<GroupZero>> }

TextsOf(chunks, n) == {Flatten(cs) : cs \in SeqsUpTo(chunks, n)}

Inputs ==
    TextsOf(ListChunks, MaxChunks)
    \cup {b1 \o b2 : b1 \in ListBlocks, b2 \in ListBlocks}
    \cup TextsOf(QuoteChunks, MaxChunks + 1)
    \cup TextsOf(InlineChunks, MaxChunks + 1)
    \cup TextsOf(SpanChunks, MaxChunks)
    \cup TextsOf(WordChunks, MaxChunks)

(***************************************************************************)
(* convert_journey_html_to_dayone_markdown, one action per stage and one   *)
(* per loop iteration.                                                     *)
(***************************************************************************)
\* parity: the number of loop iterations so far, modulo 2, so that an iteration
\* that leaves the text as it was is still a step of the loop
NoBlock == [kind |-> "none", parity |-> 0]

RunIdle ==
    /\ entries = <<>>
    /\ rpc = "idle"
    /\ loaded = 0
    /\ flat = <<>>
    /\ data = [failed_paths |-> <<>>, skipped_paths |-> <<>>,
               attempted_count |-> 0, total_count |-> 0]
    /\ yielded = <<>>
    /\ printed = [succeeded |-> 0, failed |-> 0, skipped |-> 0]

Init ==
    /\ input \in Inputs
    /\ text = input
    /\ pc = "convert_simple"
    /\ block = NoBlock
    /\ RunIdle

ConvertSimple ==
    /\ pc = "convert_simple"
    /\ text' = convert_simple(text)
    /\ pc' = "ol_loop"
    /\ UNCHANGED <<input, block>>

\* one turn of a while loop: m is the located block, tpl its replacement
\* template, r the result of the substitution
Iteration(kind, m, tpl, r) ==
    /\ Len(r.text) <= MaxText
    /\ block' = [kind |-> kind, m |-> m, template |-> tpl,
                 parity |-> 1 - block.parity]
    /\ IF r.raised
       THEN pc' = "raised" /\ text' = text
       ELSE pc' = pc /\ text' = r.text
    /\ UNCHANGED input

OlIteration ==
    /\ pc = "ol_loop"
    /\ \E m \in {ol_parent_search(text)} :
          /\ m.found
          /\ \E tpl \in {ol_template(m)} :
                \E r \in {sub_once(tpl, m)} : Iteration("ol", m, tpl, r)

OlExit ==
    /\ pc = "ol_loop"
    /\ ~ol_parent_search(text).found
    /\ pc' = "ul_loop"
    /\ UNCHANGED <<input, text, block>>

UlIteration ==
    /\ pc = "ul_loop"
    /\ \E m \in {ul_parent_search(text)} :
          /\ m.found
          /\ \E tpl \in {ul_template(m)} :
                \E r \in {sub_once(tpl, m)} : Iteration("ul", m, tpl, r)

UlExit ==
    /\ pc = "ul_loop"
    /\ ~ul_parent_search(text).found
    /\ pc' = "perform_phrase_replacements"
    /\ UNCHANGED <<input, text, block>>

PerformPhraseReplacements ==
    /\ pc = "perform_phrase_replacements"
    /\ text' = perform_phrase_replacements(text)
    /\ pc' = "fix_name_spellings"
    /\ UNCHANGED <<input, block>>

FixNameSpellings ==
    /\ pc = "fix_name_spellings"
    /\ text' = fix_name_spellings(text)
    /\ pc' = "quote_loop"
    /\ UNCHANGED <<input, block>>

QuoteIteration ==
    /\ pc = "quote_loop"
    /\ \E m \in {quote_parent_search(text)} :
          /\ m.found
          /\ \E tpl \in {quote_template(m)} :
                \E r \in {sub_once(tpl, m)} : Iteration("quote", m, tpl, r)

QuoteExit ==
    /\ pc = "quote_loop"
    /\ ~quote_parent_search(text).found
    /\ pc' = "replace_hr"
    /\ UNCHANGED <<input, text, block>>

ReplaceHr ==
    /\ pc = "replace_hr"
    /\ text' = replace_hr(text)
    /\ pc' = "done"
    /\ UNCHANGED <<input, block>>

Next ==
    \/ ConvertSimple /\ UNCHANGED runVars
    \/ OlIteration /\ UNCHANGED runVars
    \/ OlExit /\ UNCHANGED runVars
    \/ UlIteration /\ UNCHANGED runVars
    \/ UlExit /\ UNCHANGED runVars
    \/ PerformPhraseReplacements /\ UNCHANGED runVars
    \/ FixNameSpellings /\ UNCHANGED runVars
    \/ QuoteIteration /\ UNCHANGED runVars
    \/ QuoteExit /\ UNCHANGED runVars
    \/ ReplaceHr /\ UNCHANGED runVars

Spec == Init /\ [][Next]_vars

\* single blocks of each kind, their content up to MaxItems chunks
LoopInputs ==
    { <<o[1]>> \o c \o <<o[2]>> :
        o \in {<<"<ol>", "</ol>">>, <<"<ul>", "</ul>">>,
               <<"<blockquote>", "</blockquote>">>},
        c \in TextsOf({<<"a">>, <<NL>>, <<GroupZero>>, <<BadEscape>>,
                       Item("<li>", <<"a">>), Item("<li>", <<GroupZero>>)}, MaxItems) }

LoopInit ==
    /\ input \in LoopInputs
    /\ text = input
    /\ pc = "convert_simple"
    /\ block = NoBlock
    /\ RunIdle

\* the interpreter keeps executing the function until it returns or raises
FairSpec == LoopInit /\ [][Next]_vars /\ WF_vars(Next)

(***************************************************************************)
(* The conversion as a function, for its caller build_valid_entry.         *)
(***************************************************************************)
RECURSIVE ol_loop(_)
ol_loop(t) ==
    IF ~ol_parent_search(t).found THEN [raised |-> FALSE, text |-> t]
    ELSE Then(ol_iteration(t), LAMBDA r : IF r.raised THEN r ELSE ol_loop(r.text))

RECURSIVE ul_loop(_)
ul_loop(t) ==
    IF ~ul_parent_search(t).found THEN [raised |-> FALSE, text |-> t]
    ELSE Then(ul_iteration(t), LAMBDA r : IF r.raised THEN r ELSE ul_loop(r.text))

convert_lists(t) ==
    Then(ol_loop(t), LAMBDA r : IF r.raised THEN r ELSE ul_loop(r.text))

RECURSIVE convert_quote_blocks(_)
convert_quote_blocks(t) ==
    IF ~quote_parent_search(t).found THEN [raised |-> FALSE, text |-> t]
    ELSE Then(quote_iteration(t),
              LAMBDA r : IF r.raised THEN r ELSE convert_quote_blocks(r.text))

convert_journey_html_to_dayone_markdown(t) ==
    Then(Then(convert_simple(t), convert_lists),
         LAMBDA lists :
            IF lists.raised THEN lists
            ELSE Then(Then(Then(perform_phrase_replacements(lists.text),
                                fix_name_spellings),
                           convert_quote_blocks),
                      LAMBDA quotes :
                         IF quotes.raised THEN quotes
                         ELSE [raised |-> FALSE, text |-> replace_hr(quotes.text)]))

(***************************************************************************)
(* Importer.run: load, validate, import, print.  The three stages are lazy *)
(* generators that print_result drives by list(imported_entries).          *)
(***************************************************************************)
MaxEntries == 3

DayOneMoment == "dayone-moment:"

EntryTexts ==
    { <<"a">>, <<"<p>", "</p>">>, <<"a", DayOneMoment>>,
      <<"<ol>", "<li>", BadEscape, "</li>", "</ol>">> }

RawEntries == [text : EntryTexts, photos : 0..1]

\* lines 162-172 of build_valid_entry: the skip decision on the converted text
skip_entry(converted, photos) ==
    \/ converted = <<>> /\ photos = 0
    \/ \E i \in 1..Len(converted) : converted[i] = DayOneMoment

\* the skipped entry dropped without recording its path
build_valid_entry_unrecorded(path, raw, converted, d) ==
    IF skip_entry(converted, raw.photos)
    THEN [entry |-> <<>>, data |-> d]
    ELSE [entry |-> <<path>>, data |-> d]

\* lines 174-179 of build_valid_entry, converted being the text of line 163:
\* the entry is returned, or its path recorded
build_valid_entry(path, raw, converted, d) ==
    IF skip_entry(converted, raw.photos)
    THEN [entry |-> <<>>,
          data |-> [d EXCEPT !.skipped_paths = Append(@, path)]]
    ELSE [entry |-> <<path>>, data |-> d]

\* lines 421-427 of print_result
print_result(succeeded, d) ==
    [succeeded |-> Len(succeeded), failed |-> Len(d.failed_paths),
     skipped |-> Len(d.skipped_paths)]

ConvIdle ==
    /\ input = <<>>
    /\ text = <<>>
    /\ pc = "idle"
    /\ block = NoBlock

RunInit ==
    /\ ConvIdle
    /\ entries \in SeqsUpTo(RawEntries, MaxEntries)
    /\ rpc = "run"
    /\ loaded = 0
    /\ flat = <<>>
    /\ data = [failed_paths |-> <<>>, skipped_paths |-> <<>>,
               attempted_count |-> 0, total_count |-> 0]
    /\ yielded = <<>>
    /\ printed = [succeeded |-> 0, failed |-> 0, skipped |-> 0]

\* line 79: self.data = ImportManyResult([], []); lines 80-83 only build generators
Run ==
    /\ rpc = "run"
    /\ data' = [failed_paths |-> <<>>, skipped_paths |-> <<>>,
                attempted_count |-> 0, total_count |-> 0]
    /\ rpc' = "validate"
    /\ UNCHANGED <<entries, loaded, flat, yielded, printed>>

\* flat_entries = list(entries) pulls one raw entry through load_journey_entries
\* and validate_journey_entries
ValidateEntry ==
    /\ rpc = "validate"
    /\ loaded < Len(entries)
    /\ loaded' = loaded + 1
    /\ \E c \in {convert_journey_html_to_dayone_markdown(entries[loaded + 1].text)} :
          IF c.raised
          THEN rpc' = "raised" /\ UNCHANGED <<flat, data>>
          ELSE \E r \in {build_valid_entry(loaded + 1, entries[loaded + 1], c.text, data)} :
                  /\ rpc' = rpc
                  /\ flat' = flat \o r.entry
                  /\ data' = r.data
    /\ UNCHANGED <<entries, yielded, printed>>

\* line 364: self.data.total_count = len(flat_entries)
StartImport ==
    /\ rpc = "validate"
    /\ loaded = Len(entries)
    /\ data' = [data EXCEPT !.total_count = Len(flat)]
    /\ rpc' = "import"
    /\ UNCHANGED <<entries, loaded, flat, yielded, printed>>

\* lines 365-384: one turn of the import loop; err is the outcome of dayone2
ImportOne ==
    /\ rpc = "import"
    /\ flat # <<>>
    /\ \E err \in BOOLEAN :
          /\ data' = [data EXCEPT !.attempted_count = @ + 1,
                                  !.failed_paths = IF err THEN Append(@, Head(flat)) ELSE @]
          /\ yielded' = IF err THEN yielded ELSE Append(yielded, Head(flat))
    /\ flat' = Tail(flat)
    /\ UNCHANGED <<entries, rpc, loaded, printed>>

\* lines 421-427: list(imported_entries) has returned
PrintResult ==
    /\ rpc = "import"
    /\ flat = <<>>
    /\ printed' = print_result(yielded, data)
    /\ rpc' = "done"
    /\ UNCHANGED <<entries, loaded, flat, data, yielded>>

RunNext ==
    \/ Run /\ UNCHANGED convVars
    \/ ValidateEntry /\ UNCHANGED convVars
    \/ StartImport /\ UNCHANGED convVars
    \/ ImportOne /\ UNCHANGED convVars
    \/ PrintResult /\ UNCHANGED convVars

RunSpec == RunInit /\ [][RunNext]_vars

(***************************************************************************)
(* Properties.                                                             *)
(***************************************************************************)
Backslashes == {EscNewline, BadEscape, GroupZero} \cup GroupRefs
Before(m) == Slice(m.text, 1, m.start - 1)
After(m) == Slice(m.text, m.end + 1, Len(m.text))
Inner(m) == Slice(m.text, m.start + 1, m.end - 1)
LeadingWs(m) == Slice(m.text, m.start + 1, FirstNotIn(m.text, m.start + 1, Whitespace) - 1)
Plain(s) == \A i \in 1..Len(s) : s[i] \notin Backslashes
\* the state right after an iteration of the loop over blocks of this kind
JustReplaced(kind) == block.kind = kind /\ pc = kind \o "_loop"

\* C1: the conversion is total: no stage raises, whatever the input, also when
\* the content of a list item or of a block holds backslash sequences.
C1_ConvertIsTotal == pc # "raised"

\* C2: every block-rewriting loop terminates on every input: the conversion
\* always comes to its end (it returns, or it raises).
C2_LoopsTerminate == <>(pc \in {"done", "raised"})

\* C3: an ordered-list block is replaced by its items in order, the k-th as a
\* newline, "k. ", the item's inner content and the whitespace after the item,
\* each block numbered from 1; after the loop no ordered-list block remains.
RECURSIVE NumberedItems(_, _)
NumberedItems(items, k) ==
    IF k > Len(items) THEN <<>>
    ELSE <<NL, Ordinal(k)>> \o items[k].contents \o items[k].newline
         \o NumberedItems(items, k + 1)

C3_OrderedListNumbering ==
    /\ JustReplaced("ol") =>
          text = Before(block.m) \o LeadingWs(block.m)
                 \o NumberedItems(li_finditer(Inner(block.m), 1), 1)
                 \o After(block.m)
    /\ pc = "ul_loop" =>
          ~\E i, j \in 1..Len(text) : i < j /\ text[i] \in OlOpen /\ text[j] \in OlClose

\* C4: a blockquote block is replaced by its inner content in which every line
\* that is followed by a newline, the first line included, is prefixed with
\* "> " and the final line is not; the markers are removed.
RECURSIVE PrefixLines(_, _)
PrefixLines(c, p) ==
    IF p > Len(c) THEN <<>>
    ELSE LET q == FirstIdx(c, p, {NL})
         IN  IF q = 0 THEN Slice(c, p, Len(c))
             ELSE <<"> ">> \o Slice(c, p, q) \o PrefixLines(c, q + 1)

C4_BlockquotePrefixing ==
    (/\ JustReplaced("quote")
     /\ Plain(Inner(block.m))
     /\ Inner(block.m) # <<>> /\ Head(Inner(block.m)) # NL) =>
        text = Before(block.m) \o PrefixLines(Inner(block.m), 1) \o After(block.m)

\* C5: for each of the four wrapping rules (emphasis, strong, strikethrough,
\* underline span), content followed by a non-breaking space and the closing
\* tag comes out as marker, content, marker, space: the space after the marker.
Wrappings ==
    { <<"<em>", "</em>", "*">>, <<"<strong>", "</strong>", "**">>,
      <<"<del>", "</del>", "~~">>, <<SpanUnderline, "</span>", "*">> }

C5_NbspReordering ==
    (pc = "ol_loop" /\ block.kind = "none") =>
        \A w \in Wrappings :
            input = <<w[1], "a", Nbsp, w[2]>> => text = <<w[3], "a", w[3], " ">>

\* C6: an unordered block is classified by its own opening tag; in a task list a
\* checked item marker becomes newline, "- [X] " and a default one newline,
\* "- [ ] ", in a plain list an item marker becomes newline, "- "; closing item
\* markers are removed; after the loop no unordered-list block remains.
ItemImage(tok, task) ==
    IF tok \in LiClose THEN <<>>
    ELSE IF tok = LiChecked /\ task THEN <<NL, "- [X] ">>
    ELSE IF tok \in LiOpen THEN (IF task THEN <<NL, "- [ ] ">> ELSE <<NL, "- ">>)
    ELSE <<tok>>

BlockImage(m) ==
    Flatten([i \in 1..Len(Inner(m)) |-> ItemImage(Inner(m)[i], m.text[m.start] = UlTask)])

EndsWith(t, s) == Len(s) <= Len(t) /\ Slice(t, Len(t) - Len(s) + 1, Len(t)) = s
StartsWith(t, s) == Len(s) <= Len(t) /\ Slice(t, 1, Len(s)) = s

C7_ZeroItemList ==
    \A kind \in {"ol", "ul"} :
        (/\ JustReplaced(kind)
         /\ Plain(Inner(block.m))
         /\ \A i \in 1..Len(Inner(block.m)) :
               Inner(block.m)[i] \notin LiOpen \cup {LiChecked} \cup LiClose
         /\ FirstNotIn(block.m.text, block.m.start + 1, Whitespace) = block.m.end)
        => text = Before(block.m) \o LeadingWs(block.m) \o After(block.m)

\* C8: an opening marker of a paired construct that has no closing marker
\* later in the text is still in the output of convert.
Paired ==
    { <<EmOpen, EmClose>>, <<StrongOpen, StrongClose>>, <<DelOpen, DelClose>>,
      <<{SpanUnderline}, SpanClose>>, <<OlOpen, OlClose>>, <<UlOpen, UlClose>>,
      <<QuoteOpen, QuoteClose>> }

C8_UnterminatedMarkupIsLeft ==
    (pc = "done" /\ Plain(input)) =>
        \A c \in Paired : \A i \in 1..Len(input) :
            (/\ input[i] \in c[1]
             /\ \A j \in (i + 1)..Len(input) : input[j] \notin c[2])
            => \E k \in 1..Len(text) : text[k] = input[i]

\* C9: a text without markup (no tag, no non-breaking-space entity) is left as
\* it is by the inline, list, quote and horizontal-rule rules; the phrase and
\* name rules leave a text as it is when it holds no merged phrase and no
\* lowercase or misspelled name.
Markup ==
    OlOpen \cup OlClose \cup UlOpen \cup UlClose \cup LiOpen \cup {LiChecked} \cup LiClose
    \cup QuoteOpen \cup QuoteClose \cup EmOpen \cup EmClose \cup StrongOpen
    \cup StrongClose \cup DelTags \cup SpanTags \cup PAttr \cup PTags \cup HTags
    \cup HrTags \cup {Nbsp}

NoMarkup(t) == \A i \in 1..Len(t) : t[i] \notin Markup

Incorrect ==
    {"coffeeshop", "Coffeeshop", "coffeeShop", "CoffeeShop",
     "name", "nome", "Nome", "NOME", "neme", "Neme", "NEME"}

AlreadyCorrect(t) == \A i \in 1..Len(t) : t[i] \notin Incorrect

C9_NoOpOnPlainText ==
    [][NoMarkup(input) =>
         /\ pc \notin {"perform_phrase_replacements", "fix_name_spellings"}
               => text' = text
         /\ AlreadyCorrect(text) => text' = text
         /\ pc' # "raised"]_vars

C9_Witness ==
    /\ pc = "done"
    /\ input = <<"Name", " ", "One", "NAME", " ", "ONE", "coffee", " ", "shop">>
    /\ text = input

\* C11: convert_simple only replaces or deletes tags and entities: the tokens of
\* plain text of the input (everything that is not a tag or an entity) are all
\* in its output, in the same relative order; in particular the content of a
\* styled span that is followed on its line by an underlined span is kept.
TextRuns(t) == SelectSeq(t, LAMBDA x : x \notin Markup)

RECURSIVE IsSubsequence(_, _)
IsSubsequence(a, b) ==
    IF a = <<>> THEN TRUE
    ELSE IF b = <<>> THEN FALSE
    ELSE IF Head(a) = Head(b) THEN IsSubsequence(Tail(a), Tail(b))
    ELSE IsSubsequence(a, Tail(b))

C11_InlineContentPreserved ==
    (pc = "ol_loop" /\ block.kind = "none") =>
        IsSubsequence(TextRuns(input), text)

\* C10: when run has printed its result, every loaded entry is in exactly one
\* of succeeded, failed and skipped, attempted_count = total_count =
\* succeeded + failed, and the printed counts are the final ones.
Occurrences(s, x) == Cardinality({i \in 1..Len(s) : s[i] = x})

C10_ImportAccounting ==
    rpc = "done" =>
        /\ printed.succeeded + printed.failed + printed.skipped = Len(entries)
        /\ data.attempted_count = data.total_count
        /\ printed.succeeded + printed.failed = data.total_count
        /\ \A p \in 1..Len(entries) :
              Occurrences(yielded, p) + Occurrences(data.failed_paths, p)
              + Occurrences(data.skipped_paths, p) = 1
        /\ printed = [succeeded |-> Len(yielded),
                      failed |-> Len(data.failed_paths),
                      skipped |-> Len(data.skipped_paths)]

C10_Witness ==
    /\ rpc = "done"
    /\ printed.succeeded > 0
    /\ printed.failed > 0
    /\ printed.skipped > 0

====
